---- MODULE Spec2Model ----
(***************************************************************************)
(* Model of data_filter_example/opa.py: the compile / compile_sa pipeline  *)
(* (evaluator call, three-way classification, queryPreprocessor, then      *)
(* queryTranslator or SqlAlchemyQueryTranslator), and the evaluator        *)
(* binding compile_command_line.                                           *)
(***************************************************************************)
EXTENDS Naturals, Sequences, FiniteSets, TLC

VARIABLES invocation, policy, pc, request, queries, query_set, pre, tr, i,
          result, error, cl

vars == <<invocation, policy, pc, request, queries, query_set, pre, tr, i,
          result, error, cl>>

(* ------------------------------------------------------------------ *)
(* Bounds of the model.                                               *)
(* ------------------------------------------------------------------ *)

\* the evaluator returns at most MaxQueries Queries ...
MaxQueries == 2
\* ... holding at most MaxExprs Exprs altogether
MaxExprs == 3
\* compile_command_line is given at most MaxDataFiles data files
MaxDataFiles == 2

(* ------------------------------------------------------------------ *)
(* Exceptions.                                                        *)
(* ------------------------------------------------------------------ *)

NoError == [class |-> "", msg |-> "", arg |-> ""]

Raise(class, msg, arg) == [class |-> class, msg |-> msg, arg |-> arg]

TranslationError(msg, arg) == Raise("TranslationError", msg, arg)

(* ------------------------------------------------------------------ *)
(* Wire shape of the evaluator's output (JSON).                       *)
(* ------------------------------------------------------------------ *)

WString(v) == [type |-> "string", value |-> v]
WNumber(v) == [type |-> "number", value |-> v]
WVar(v) == [type |-> "var", value |-> v]
WRef(ts) == [type |-> "ref", value |-> ts]
WCall(ts) == [type |-> "call", value |-> ts]
\* {"terms": [operator, operand, ...]}
WCallExpr(ts) == [bare |-> FALSE, terms |-> ts]
\* {"terms": {term}}
WBareExpr(t) == [bare |-> TRUE, terms |-> <<t>>]

(* ------------------------------------------------------------------ *)
(* rego.ast as opa.py uses it. A Term and its value are one record:   *)
(* node.terms[k].value.value is terms[k+1].value here.                *)
(* ------------------------------------------------------------------ *)

Scalar(v) == [type |-> "scalar", value |-> v, terms |-> <<>>]
Var(v) == [type |-> "var", value |-> v, terms |-> <<>>]
Ref(ts) == [type |-> "ref", value |-> "", terms |-> ts]
Call(ts) == [type |-> "call", value |-> "", terms |-> ts]

RECURSIVE TermFromData(_)
TermFromData(w) ==
    CASE w.type = "var" -> Var(w.value)
      [] w.type = "ref" ->
            Ref([k \in 1..Len(w.value) |-> TermFromData(w.value[k])])
      [] w.type = "call" ->
            Call([k \in 1..Len(w.value) |-> TermFromData(w.value[k])])
      [] OTHER -> Scalar(w.value)

ExprFromData(w) ==
    [is_call |-> ~w.bare,
     terms |-> [k \in 1..Len(w.terms) |-> TermFromData(w.terms[k])]]

\* ast.QuerySet.from_data(queries)
QuerySetFromData(data) ==
    [q \in 1..Len(data) |->
        [e \in 1..Len(data[q]) |-> ExprFromData(data[q][e])]]

\* node.operands of an Expr or a Call: terms[1:]
Operands(node) == SubSeq(node.terms, 2, Len(node.terms))

RECURSIVE JoinDots(_, _)
JoinDots(ts, k) ==
    IF k > Len(ts) THEN ""
    ELSE IF k = Len(ts) THEN ts[k].value
    ELSE ts[k].value \o "." \o JoinDots(ts, k + 1)

\* node.op(): the dotted name of the operator Ref in terms[0]
Op(node) == JoinDots(node.terms[1].terms, 1)

\* v.__class__.__name__
ClassName(t) ==
    CASE t.type = "scalar" -> "Scalar"
      [] t.type = "var" -> "Var"
      [] t.type = "ref" -> "Ref"
      [] OTHER -> "Call"

(* ------------------------------------------------------------------ *)
(* queryPreprocessor.                                                 *)
(* ------------------------------------------------------------------ *)

\* an empty dict
EmptyMap == [k \in {} |-> ""]

Put(m, k, v) == [x \in DOMAIN m \cup {k} |-> IF x = k THEN v ELSE m[x]]

\* queryPreprocessor.__init__
PreInit == [live |-> TRUE, table_names |-> <<>>, table_vars |-> EmptyMap,
            err |-> NoError]

\* no queryPreprocessor has been constructed
NoPre == [live |-> FALSE, table_names |-> <<>>, table_vars |-> EmptyMap,
          err |-> NoError]

\* a rewrite that drops nothing: the iterator segment stays in the Ref
PreBindRefKeepIterator(p, node) ==
    LET row_id == node.terms[3]
        prefix == SubSeq(node.terms, 1, 2)
        p1 == [p EXCEPT !.table_vars = Put(@, row_id.value, prefix)]
        table_name == node.terms[2].value
        last == p.table_names[Len(p.table_names)]
        exist == IF table_name \in DOMAIN last THEN last[table_name]
                 ELSE row_id.value
    IN  IF exist # row_id.value
        THEN [p |-> [p1 EXCEPT !.err = TranslationError(
                        "invalid reference: self-joins not supported", "")],
              node |-> node]
        ELSE [p |-> [p1 EXCEPT !.table_names[Len(p.table_names)] =
                                  Put(@, table_name, row_id.value)],
              node |-> node]

\* the self-join check and the rewrite of a row-binder Ref
PreBindRef(p, node) ==
    LET row_id == node.terms[3]
        prefix == SubSeq(node.terms, 1, 2)
        p1 == [p EXCEPT !.table_vars = Put(@, row_id.value, prefix)]
        table_name == node.terms[2].value
        last == p.table_names[Len(p.table_names)]
        exist == IF table_name \in DOMAIN last THEN last[table_name]
                 ELSE row_id.value
    IN  IF exist # row_id.value
        THEN [p |-> [p1 EXCEPT !.err = TranslationError(
                        "invalid reference: self-joins not supported", "")],
              node |-> node]
        ELSE [p |-> [p1 EXCEPT !.table_names[Len(p.table_names)] =
                                  Put(@, table_name, row_id.value)],
              node |-> [node EXCEPT !.terms =
                          prefix \o SubSeq(node.terms, 4, Len(node.terms))]]

\* queryPreprocessor.__call__ on a Ref
PreRef(p, node) ==
    LET head == node.terms[1].value
    IN  IF head \in DOMAIN p.table_vars
        THEN [p |-> p,
              node |-> [node EXCEPT !.terms =
                          p.table_vars[head] \o SubSeq(node.terms, 2, Len(node.terms))]]
        ELSE IF Len(node.terms) < 3
        THEN \* node.terms[2] of a Ref of fewer than three segments
             [p |-> [p EXCEPT !.err = Raise("IndexError", "list index out of range", "")],
              node |-> node]
        ELSE IF node.terms[3].type # "var"
        THEN [p |-> [p EXCEPT !.err = TranslationError(
                        "invalid reference: row identifier type not supported",
                        ClassName(node.terms[3]))],
              node |-> node]
        ELSE PreBindRef(p, node)

RECURSIVE PreTerm(_, _), PreTerms(_, _, _)

\* walk.walk(term, preprocessor): a Call's operands are walked, a Ref is
\* rewritten and not descended into, Scalars and Vars have no children
PreTerm(p, t) ==
    IF p.err # NoError THEN [p |-> p, node |-> t]
    ELSE CASE t.type = "ref" -> PreRef(p, t)
           [] t.type = "call" ->
                LET r == PreTerms(p, t.terms, 2)
                IN  [p |-> r.p, node |-> [t EXCEPT !.terms = r.terms]]
           [] OTHER -> [p |-> p, node |-> t]

\* for o in terms[k-1:]: walk.walk(o, self), stopping at the first raise
PreTerms(p, terms, k) ==
    IF k > Len(terms) \/ p.err # NoError THEN [p |-> p, terms |-> terms]
    ELSE LET r == PreTerm(p, terms[k])
         IN  PreTerms(r.p, [terms EXCEPT ![k] = r.node], k + 1)

\* queryPreprocessor.__call__ on an Expr: the operands of a call, the lone
\* Term of a bare Expr
PreExpr(p, e) ==
    LET r == PreTerms(p, e.terms, IF e.is_call THEN 2 ELSE 1)
    IN  [p |-> r.p, node |-> [e EXCEPT !.terms = r.terms]]

RECURSIVE PreExprs(_, _, _)
PreExprs(p, exprs, k) ==
    IF k > Len(exprs) \/ p.err # NoError THEN [p |-> p, exprs |-> exprs]
    ELSE LET r == PreExpr(p, exprs[k])
         IN  PreExprs(r.p, [exprs EXCEPT ![k] = r.node], k + 1)

\* a preprocessor that keeps one table-to-iterator dict for all Queries
PreQueryNoReset(p, query) ==
    PreExprs([p EXCEPT !.table_names = IF Len(@) = 0 THEN <<EmptyMap>> ELSE @,
                       !.table_vars = EmptyMap],
             query, 1)

\* queryPreprocessor.__call__ on a Query, and the walk of its Exprs
PreQuery(p, query) ==
    PreExprs([p EXCEPT !.table_names = Append(@, EmptyMap),
                       !.table_vars = EmptyMap],
             query, 1)

(* ------------------------------------------------------------------ *)
(* The sql clause model (data_filter_example.sql) and the SQLAlchemy  *)
(* constructs the schema-bound translator builds.                     *)
(* ------------------------------------------------------------------ *)

Column(name, table) == [kind |-> "Column", table |-> table, name |-> name]
Constant(v) == [kind |-> "Constant", value |-> v]
SqlCall(op, operands) == [kind |-> "Call", op |-> op, operands |-> operands]
Relation(op, lhs, rhs) == [kind |-> "Relation", op |-> op, lhs |-> lhs, rhs |-> rhs]
Conjunction(conditions) == [kind |-> "Conjunction", conditions |-> conditions]
Disjunction(conditions) == [kind |-> "Disjunction", conditions |-> conditions]
Where(condition) == [kind |-> "Where", condition |-> condition]
InnerJoin(tables, condition) ==
    [kind |-> "InnerJoin", tables |-> tables, condition |-> condition]
Union(clauses) == [kind |-> "Union", clauses |-> clauses]

\* the Python list of clauses SqlAlchemyQueryTranslator.translate returns
ClauseList(clauses) == [kind |-> "list", clauses |-> clauses]
\* a Python value handed to SQLAlchemy as it is
Literal(v) == [kind |-> "Literal", value |-> v]
\* sa.Table(name, self._meta, autoload_with=engine)
SaTable(name) == [kind |-> "Table", name |-> name]
\* sa.sql.expression.join(left, right, onclause=on, isouter=False)
SaJoin(left, right, on) == [kind |-> "Join", left |-> left, right |-> right, on |-> on]

\* the tables of the test database and their columns
Schema ==
    [t \in {"q", "r", "s"} |-> {"b", "c", "include", "exclude", "n", "a"}]

\* the order of Python's sorted() on the table names of the model
TableRank == [t \in {"a", "b", "c", "q", "r", "s"} |->
    CASE t = "a" -> 1 [] t = "b" -> 2 [] t = "c" -> 3
      [] t = "q" -> 4 [] t = "r" -> 5 [] t = "s" -> 6]

RECURSIVE SortedDescending(_)
\* the tables in descending order, as sorted(tables, reverse=True) gives them
SortedDescending(tables) ==
    IF tables = {} THEN <<>>
    ELSE LET m == CHOOSE t \in tables : \A u \in tables : TableRank[t] >= TableRank[u]
         IN  <<m>> \o SortedDescending(tables \ {m})

RECURSIVE Sorted(_)
\* sorted(tables)
Sorted(tables) ==
    IF tables = {} THEN <<>>
    ELSE LET m == CHOOSE t \in tables : \A u \in tables : TableRank[t] <= TableRank[u]
         IN  <<m>> \o Sorted(tables \ {m})

(* ------------------------------------------------------------------ *)
(* queryTranslator and SqlAlchemyQueryTranslator. One record holds    *)
(* the fields of either; sa tells which class it is.                  *)
(* ------------------------------------------------------------------ *)

\* _sql_relation_operators
RelationOperators == {"eq", "equal", "neq", "lt", "gt", "lte", "gte"}

SqlRelationOperator(op) ==
    CASE op = "eq" -> "="
      [] op = "equal" -> "="
      [] op = "neq" -> "!="
      [] op = "lt" -> "<"
      [] op = "gt" -> ">"
      [] op = "lte" -> "<="
      [] op = "gte" -> ">="

\* _sql_call_operators
CallOperators == {"abs"}

SqlCallOperator(op) == CASE op = "abs" -> "abs"

\* no translator has been constructed
NoTr == [live |-> FALSE, sa |-> FALSE, from_table |-> "", joins |-> <<>>,
         conjunctions |-> <<>>, tables |-> {}, relations |-> <<>>,
         operands |-> <<>>, err |-> NoError]

\* queryTranslator.__init__
TrInit(from_table) == [NoTr EXCEPT !.live = TRUE, !.from_table = from_table]

\* SqlAlchemyQueryTranslator.__init__: sa.Table(from_table, ...,
\* autoload_with=engine) reflects the from-table and raises if there is none
SaTrInit(from_table) ==
    [NoTr EXCEPT !.live = TRUE, !.sa = TRUE, !.from_table = from_table,
                 !.err = IF from_table \in DOMAIN Schema THEN NoError
                         ELSE Raise("NoSuchTableError", "", from_table)]

\* self._operands[-1].append(x)
PushOperand(t, x) ==
    [t EXCEPT !.operands[Len(t.operands)] = Append(@, x)]

\* the Ref branch of _translate_term
TrRef(t, v) ==
    LET table == v.terms[2].value
        col_name == v.terms[3].value
        t1 == [t EXCEPT !.tables = @ \cup {table}]
    IN  IF ~t.sa THEN PushOperand(t1, Column(col_name, table))
        ELSE IF table \notin DOMAIN Schema
        THEN [t1 EXCEPT !.err = Raise("NoSuchTableError", "", table)]
        ELSE IF col_name \notin Schema[table]
        THEN [t1 EXCEPT !.err = TranslationError(
                "invalid column: column not recognized", col_name)]
        ELSE PushOperand(t1, Column(col_name, table))

\* the end of the Call branch of _translate_term: pop the operands of the
\* call and push the call
TrCallPop(t, sql_op) ==
    LET sql_operands == t.operands[Len(t.operands)]
        t1 == [t EXCEPT !.operands = SubSeq(@, 1, Len(@) - 1)]
    IN  IF ~t.sa THEN PushOperand(t1, SqlCall(sql_op, sql_operands))
        ELSE IF Len(sql_operands) # 1
        THEN [t1 EXCEPT !.err = Raise("AssertionError",
                "unexpected number of sql operands", "")]
        ELSE PushOperand(t1, SqlCall(sql_op, sql_operands))

RECURSIVE TrTerm(_, _), TrTerms(_, _, _)

\* _translate_term
TrTerm(t, v) ==
    IF t.err # NoError THEN t
    ELSE CASE v.type = "scalar" ->
                PushOperand(t, IF t.sa THEN Literal(v.value) ELSE Constant(v.value))
           [] v.type = "ref" /\ Len(v.terms) = 3 -> TrRef(t, v)
           [] v.type = "call" ->
                IF Op(v) \notin CallOperators
                THEN [t EXCEPT !.err = TranslationError(
                        "invalid call: operator not supported", Op(v))]
                ELSE LET t1 == TrTerms([t EXCEPT !.operands = Append(@, <<>>)],
                                       v.terms, 2)
                     IN  IF t1.err # NoError THEN t1
                         ELSE TrCallPop(t1, SqlCallOperator(Op(v)))
           [] OTHER ->
                [t EXCEPT !.err = TranslationError(
                    "invalid term: type not supported", ClassName(v))]

\* for term in terms[k-1:]: walk.walk(term, self), stopping at the first raise
TrTerms(t, terms, k) ==
    IF k > Len(terms) \/ t.err # NoError THEN t
    ELSE TrTerms(TrTerm(t, terms[k]), terms, k + 1)

\* what ColumnOperators.__eq__ and the like accept as their first argument
IsColumnExpr(x) == x.kind \in {"Column", "Call"}

\* the end of _translate_expr: pop the two operands and push the relation
TrRelationPop(t, op) ==
    LET sql_operands == t.operands[Len(t.operands)]
        t1 == [t EXCEPT !.operands = SubSeq(@, 1, Len(@) - 1)]
        \* In the event we have only one column expression, ensure it comes first
        ordered == IF IsColumnExpr(sql_operands[1]) THEN sql_operands
                   ELSE <<sql_operands[2], sql_operands[1]>>
    IN  IF ~t.sa
        THEN [t1 EXCEPT !.relations = Append(@,
                Relation(SqlRelationOperator(op), sql_operands[1], sql_operands[2]))]
        ELSE IF ~IsColumnExpr(ordered[1])
        THEN \* sql_op(*sql_operands) on a plain Python value
             [t1 EXCEPT !.err = Raise("AttributeError", "operate", "")]
        ELSE [t1 EXCEPT !.relations = Append(@,
                Relation(SqlRelationOperator(op), ordered[1], ordered[2]))]

\* a _translate_expr whose operator error does not say which operator
TrExprOperatorUnnamed(t, node) ==
    IF ~node.is_call THEN t
    ELSE IF Len(Operands(node)) # 2
    THEN [t EXCEPT !.err = TranslationError(
            "invalid expression: too many arguments", "")]
    ELSE IF Op(node) \notin RelationOperators
    THEN [t EXCEPT !.err = TranslationError(
            "invalid expression: operator not supported", "")]
    ELSE LET t1 == TrTerms([t EXCEPT !.operands = Append(@, <<>>)], node.terms, 2)
         IN  IF t1.err # NoError THEN t1 ELSE TrRelationPop(t1, Op(node))

\* _translate_expr
TrExpr(t, node) ==
    IF ~node.is_call THEN t
    ELSE IF Len(Operands(node)) # 2
    THEN [t EXCEPT !.err = TranslationError(
            "invalid expression: too many arguments", "")]
    ELSE IF Op(node) \notin RelationOperators
    THEN [t EXCEPT !.err = TranslationError(
            "invalid expression: operator not supported", Op(node))]
    ELSE LET t1 == TrTerms([t EXCEPT !.operands = Append(@, <<>>)], node.terms, 2)
         IN  IF t1.err # NoError THEN t1 ELSE TrRelationPop(t1, Op(node))

RECURSIVE TrExprs(_, _, _)
\* for expr in node.exprs: walk.walk(expr, self)
TrExprs(t, exprs, k) ==
    IF k > Len(exprs) \/ t.err # NoError THEN t
    ELSE TrExprs(TrExpr(t, exprs[k]), exprs, k + 1)

\* a _translate_query that forgets self._relations = []
TrPushQueryKeepRelations(t) ==
    LET conj == Conjunction(t.relations)
    IN  IF Cardinality(t.tables) > 1
        THEN IF t.from_table \notin t.tables
             THEN [t EXCEPT !.err = Raise("KeyError", "", t.from_table)]
             ELSE [t EXCEPT !.joins = Append(@, <<t.tables \ {t.from_table}, conj>>),
                            !.tables = {}]
        ELSE [t EXCEPT !.conjunctions = Append(@, conj), !.tables = {}]

\* a _translate_query that takes the from-table out with discard(), which
\* does not mind its absence
TrPushQueryDiscard(t) ==
    LET conj == Conjunction(t.relations)
    IN  IF Cardinality(t.tables) > 1
        THEN [t EXCEPT !.joins = Append(@, <<t.tables \ {t.from_table}, conj>>),
                       !.tables = {}, !.relations = <<>>]
        ELSE [t EXCEPT !.conjunctions = Append(@, conj),
                       !.tables = {}, !.relations = <<>>]

\* the end of _translate_query: push the conjunction or the join, reset
TrPushQuery(t) ==
    LET conj == Conjunction(t.relations)
    IN  IF Cardinality(t.tables) > 1
        THEN IF t.from_table \notin t.tables
             THEN \* self._tables.remove(self._from_table)
                  [t EXCEPT !.err = Raise("KeyError", "", t.from_table)]
             ELSE [t EXCEPT !.joins = Append(@, <<t.tables \ {t.from_table}, conj>>),
                            !.tables = {}, !.relations = <<>>]
        ELSE [t EXCEPT !.conjunctions = Append(@, conj),
                       !.tables = {}, !.relations = <<>>]

\* a _translate_query that pushes nothing for a Query without Relations
TrQuerySkipEmpty(t, query) ==
    LET t1 == TrExprs(t, query, 1)
    IN  IF t1.err # NoError THEN t1
        ELSE IF t1.relations = <<>> THEN [t1 EXCEPT !.tables = {}]
        ELSE TrPushQuery(t1)

\* _translate_query
TrQuery(t, query) ==
    LET t1 == TrExprs(t, query, 1)
    IN  IF t1.err # NoError THEN t1 ELSE TrPushQuery(t1)

RECURSIVE SaChain(_, _, _, _)
\* pred = pred.join(Table(tables[k + 1]), onclause=conj) for the rest
SaChain(pred, tables, k, conj) ==
    IF k > Len(tables) THEN pred
    ELSE SaChain(SaJoin(pred, SaTable(tables[k]), conj), tables, k + 1, conj)

\* the join of SqlAlchemyQueryTranslator.translate for one (tables, conj)
SaJoinClause(from_table, tables, conj) ==
    LET sorted == Sorted(tables)
    IN  SaChain(SaJoin(SaTable(from_table), SaTable(sorted[1]), conj),
                sorted, 2, conj)

\* a translate that appends the Where clause after the joins
ClausesJoinsFirst(t) ==
    LET where == IF Len(t.conjunctions) > 0
                 THEN IF t.sa THEN <<Disjunction(t.conjunctions)>>
                      ELSE <<Where(Disjunction(t.conjunctions))>>
                 ELSE <<>>
        joins == [k \in 1..Len(t.joins) |->
                    IF t.sa THEN SaJoinClause(t.from_table, t.joins[k][1], t.joins[k][2])
                    ELSE InnerJoin(t.joins[k][1], t.joins[k][2])]
    IN  IF t.sa THEN ClauseList(joins \o where) ELSE Union(joins \o where)

\* the clauses translate returns once the walk is over
Clauses(t) ==
    LET where == IF Len(t.conjunctions) > 0
                 THEN IF t.sa THEN <<Disjunction(t.conjunctions)>>
                      ELSE <<Where(Disjunction(t.conjunctions))>>
                 ELSE <<>>
        joins == [k \in 1..Len(t.joins) |->
                    IF t.sa THEN SaJoinClause(t.from_table, t.joins[k][1], t.joins[k][2])
                    ELSE InnerJoin(t.joins[k][1], t.joins[k][2])]
    IN  IF t.sa THEN ClauseList(where \o joins) ELSE Union(where \o joins)

(* ------------------------------------------------------------------ *)
(* The evaluator: what partial evaluation can return depends on the   *)
(* policy loaded into it. Each policy below is the set of Exprs its   *)
(* rule bodies can leave in the result.                               *)
(* ------------------------------------------------------------------ *)

WOp(name) == WRef(<<WVar(name)>>)
\* data.<table>[<it>]
WRow(table, it) == WRef(<<WVar("data"), WString(table), WVar(it)>>)
\* data.<table>[<it>].<col>
WCol(table, it, col) ==
    WRef(<<WVar("data"), WString(table), WVar(it), WString(col)>>)
\* <v>.<col>
WDeref(v, col) == WRef(<<WVar(v), WString(col)>>)
WRel(op, a, b) == WCallExpr(<<WOp(op), a, b>>)

\* data.q[x] / x.b = "foo" / data.q.foo.bar = 10 / count(data.q[i].a) > 1
PolicyOneTable ==
    { WBareExpr(WRow("q", "x")),
      WRel("eq", WDeref("x", "b"), WString("foo")),
      WRel("eq", WRef(<<WVar("data"), WString("q"), WString("foo"), WString("bar")>>),
           WNumber("10")),
      WRel("gt", WCall(<<WOp("count"), WCol("q", "i", "a")>>), WNumber("1")) }

\* data.q[i].a = 10 / data.q[j].b == 20 / data.q[i] = x / abs(data.q[i].a) > 1
PolicyIterators ==
    { WRel("eq", WCol("q", "i", "a"), WNumber("10")),
      WRel("equal", WCol("q", "j", "b"), WNumber("20")),
      WRel("eq", WRow("q", "i"), WVar("x")),
      WRel("gt", WCall(<<WOp("abs"), WCol("q", "i", "a")>>), WNumber("1")) }

\* data.q = x / x[i] = y / y.a = 1 / data.q[i].a = 1
PolicyAlias ==
    { WRel("eq", WRef(<<WVar("data"), WString("q")>>), WVar("x")),
      WRel("eq", WRef(<<WVar("x"), WVar("i")>>), WVar("y")),
      WRel("eq", WDeref("y", "a"), WNumber("1")),
      WRel("eq", WCol("q", "i", "a"), WNumber("1")) }

\* data.q[x].a = 10 / data.q[x].n < 1 / data.q[x].a = data.r[y].b /
\* data.s[z].c = data.q[x].c
PolicyJoins ==
    { WRel("eq", WCol("q", "x", "a"), WNumber("10")),
      WRel("lt", WCol("q", "x", "n"), WNumber("1")),
      WRel("eq", WCol("q", "x", "a"), WCol("r", "y", "b")),
      WRel("eq", WCol("s", "z", "c"), WCol("q", "x", "c")) }

\* data.q[x] / x.exclude != true / x.n >= 1 / x.n <= 1
PolicyRelations ==
    { WBareExpr(WRow("q", "x")),
      WRel("neq", WDeref("x", "exclude"), WString("true")),
      WRel("gte", WDeref("x", "n"), WNumber("1")),
      WRel("lte", WDeref("x", "n"), WNumber("1")) }

\* startswith(data.q[x].b, "foo") / data.q[x].a = 10 /
\* plus(data.q[x].a, 1, data.q[x].n) / abs(data.q[x].a, 1) > 1 /
\* lt(data.q[x].n)
PolicyBuiltins ==
    { WRel("startswith", WCol("q", "x", "b"), WString("foo")),
      WRel("eq", WCol("q", "x", "a"), WNumber("10")),
      WCallExpr(<<WOp("plus"), WCol("q", "x", "a"), WNumber("1"),
                  WCol("q", "x", "n")>>),
      WRel("gt", WCall(<<WOp("abs"), WCol("q", "x", "a"), WNumber("1")>>),
           WNumber("1")),
      WCallExpr(<<WOp("lt"), WCol("q", "x", "n")>>) }

\* 1 < data.q[x].n / 1 >= data.q[x].n / 10 = data.q[x].a / data.q[x].n < 1
PolicyConstantFirst ==
    { WRel("lt", WNumber("1"), WCol("q", "x", "n")),
      WRel("gte", WNumber("1"), WCol("q", "x", "n")),
      WRel("eq", WNumber("10"), WCol("q", "x", "a")),
      WRel("lt", WCol("q", "x", "n"), WNumber("1")) }

\* data.r[y].b = data.s[z].c / data.q[x].a = data.r[y].b / data.r[y].b = 1 /
\* data.q[x]
PolicyTables ==
    { WRel("eq", WCol("r", "y", "b"), WCol("s", "z", "c")),
      WRel("eq", WCol("q", "x", "a"), WCol("r", "y", "b")),
      WRel("eq", WCol("r", "y", "b"), WNumber("1")),
      WBareExpr(WRow("q", "x")) }

Policies ==
    {"one_table", "iterators", "alias", "joins", "relations", "builtins",
     "constant_first", "tables"}

PolicyExprs(p) ==
    CASE p = "one_table" -> PolicyOneTable
      [] p = "iterators" -> PolicyIterators
      [] p = "alias" -> PolicyAlias
      [] p = "joins" -> PolicyJoins
      [] p = "relations" -> PolicyRelations
      [] p = "builtins" -> PolicyBuiltins
      [] p = "constant_first" -> PolicyConstantFirst
      [] p = "tables" -> PolicyTables

\* the Queries cut out of the Exprs flat at the positions cut
SplitAt(flat, cut) ==
    [k \in 1..Len(cut) |->
        SubSeq(flat, (IF k = 1 THEN 0 ELSE cut[k - 1]) + 1, cut[k])]

Cuts(k, n) ==
    { c \in [1..k -> 0..n] :
        /\ k > 0 => c[k] = n
        /\ \A j \in 1..(k - 1) : c[j] <= c[j + 1] }

\* every result the evaluator can return under the policy: at most
\* MaxQueries Queries holding at most MaxExprs Exprs altogether
EvaluatorOutputs(p) ==
    UNION { UNION { { SplitAt(flat, c) : c \in Cuts(k, n) } :
                    flat \in [1..n -> PolicyExprs(p)] } :
            <<k, n>> \in { kn \in (0..MaxQueries) \X (0..MaxExprs) :
                            kn[1] = 0 => kn[2] = 0 } }

(* ------------------------------------------------------------------ *)
(* compile_command_line: the evaluator binding that runs the opa      *)
(* binary over a scratch directory. cl holds the locals of wrapped()  *)
(* and the files under the temporary directory.                       *)
(* ------------------------------------------------------------------ *)

\* wrapped() has not been called
NoCl == [pc |-> "idle", data_files |-> <<>>, input |-> "None", args |-> <<>>,
         dirpath |-> <<>>, fs |-> {}, written |-> 0, output |-> "",
         pending |-> NoError, err |-> NoError]

(* ------------------------------------------------------------------ *)
(* compile and compile_sa.                                            *)
(* ------------------------------------------------------------------ *)

\* from_table=None
None == "None"

\* the calls of the model: compile with its default from_table and with a
\* from-table, compile_sa with the from-table of the tests and without one
Invocations ==
    { [entry |-> "compile", from_table |-> None, unknowns |-> <<"q">>],
      [entry |-> "compile", from_table |-> "q", unknowns |-> <<"q", "r", "s">>],
      [entry |-> "compile_sa", from_table |-> "q", unknowns |-> <<"q", "r", "s">>],
      [entry |-> "compile_sa", from_table |-> None, unknowns |-> <<"q">>] }

NoSql == [kind |-> "None"]
NoResult == [returned |-> FALSE, defined |-> FALSE, sql |-> NoSql]
Result(defined, sql) == [returned |-> TRUE, defined |-> defined, sql |-> sql]

NoRequest == [sent |-> FALSE, unknowns |-> <<>>]

Init ==
    /\ invocation \in Invocations
    /\ policy \in Policies
    /\ pc = "start"
    /\ request = NoRequest
    /\ queries = <<>>
    /\ query_set = <<>>
    /\ pre = NoPre
    /\ tr = NoTr
    /\ i = 0
    /\ result = NoResult
    /\ error = NoError
    /\ cl = NoCl

\* compile_func(query=q, input=input, unknowns=['data.' + u for u in unknowns])
Request ==
    [sent |-> TRUE,
     unknowns |-> [k \in 1..Len(invocation.unknowns) |->
                      "data." \o invocation.unknowns[k]]]

\* the evaluator call raises
EvaluatorFails ==
    /\ pc = "start"
    /\ request' = Request
    /\ pc' = "raised"
    /\ error' = Raise("Exception", "evaluator", "")
    /\ UNCHANGED <<cl, invocation, policy, queries, query_set, pre, tr, i, result>>

\* the evaluator call returns a sequence of Queries
EvaluatorReturns ==
    /\ pc = "start"
    /\ request' = Request
    /\ \E out \in EvaluatorOutputs(policy) : queries' = out
    /\ pc' = "classify"
    /\ UNCHANGED <<cl, invocation, policy, query_set, pre, tr, i, result, error>>

\* a slip of the test: only the first Query is looked at
AnyEmptyFirstOnly(qs) == Len(qs[1]) = 0

\* any((len(x) == 0 for x in queries))
AnyEmpty(qs) == \E k \in 1..Len(qs) : Len(qs[k]) = 0

\* a slip of the classification: the empty result allows
ReturnNeverDefinedAsAllow ==
    /\ pc = "classify"
    /\ Len(queries) = 0
    /\ result' = Result(TRUE, NoSql)
    /\ pc' = "done"
    /\ UNCHANGED <<cl, invocation, policy, request, queries, query_set, pre, tr, i, error>>

\* if len(queries) == 0: return Result(False, None)
ReturnNeverDefined ==
    /\ pc = "classify"
    /\ Len(queries) = 0
    /\ result' = Result(FALSE, NoSql)
    /\ pc' = "done"
    /\ UNCHANGED <<cl, invocation, policy, request, queries, query_set, pre, tr, i, error>>

\* elif any((len(x) == 0 for x in queries)): return Result(True, None)
ReturnAlwaysDefined ==
    /\ pc = "classify"
    /\ Len(queries) # 0
    /\ AnyEmpty(queries)
    /\ result' = Result(TRUE, NoSql)
    /\ pc' = "done"
    /\ UNCHANGED <<cl, invocation, policy, request, queries, query_set, pre, tr, i, error>>

\* query_set = ast.QuerySet.from_data(queries); queryPreprocessor()
BuildQuerySet ==
    /\ pc = "classify"
    /\ Len(queries) # 0
    /\ ~AnyEmpty(queries)
    /\ query_set' = QuerySetFromData(queries)
    /\ pre' = PreInit
    /\ i' = 0
    /\ pc' = "preprocess"
    /\ UNCHANGED <<cl, invocation, policy, request, queries, tr, result, error>>

\* the walk of process() reaches the next Query
PreprocessQuery ==
    /\ pc = "preprocess"
    /\ i < Len(query_set)
    /\ LET r == PreQuery(pre, query_set[i + 1])
       IN  /\ pre' = r.p
           /\ query_set' = [query_set EXCEPT ![i + 1] = r.exprs]
           /\ IF r.p.err # NoError
              THEN /\ pc' = "raised"
                   /\ error' = r.p.err
                   /\ i' = i
              ELSE /\ pc' = "preprocess"
                   /\ error' = error
                   /\ i' = i + 1
    /\ UNCHANGED <<cl, invocation, policy, request, queries, tr, result>>

\* queryTranslator(from_table) / SqlAlchemyQueryTranslator(from_table, engine)
ConstructTranslator ==
    /\ pc = "preprocess"
    /\ i = Len(query_set)
    /\ LET t == IF invocation.entry = "compile_sa"
                THEN SaTrInit(invocation.from_table)
                ELSE TrInit(invocation.from_table)
       IN  /\ tr' = t
           /\ IF t.err # NoError
              THEN pc' = "raised" /\ error' = t.err
              ELSE pc' = "translate" /\ error' = error
    /\ i' = 0
    /\ UNCHANGED <<cl, invocation, policy, request, queries, query_set, pre, result>>

\* a translator whose failure is caught and answered with a deny
TranslateQueryDenyOnError ==
    /\ pc = "translate"
    /\ i < Len(query_set)
    /\ LET t == TrQuery(tr, query_set[i + 1])
       IN  /\ tr' = t
           /\ IF t.err # NoError
              THEN /\ pc' = "done"
                   /\ result' = Result(FALSE, NoSql)
                   /\ i' = i
              ELSE /\ pc' = "translate"
                   /\ result' = result
                   /\ i' = i + 1
    /\ UNCHANGED <<cl, invocation, policy, request, queries, query_set, pre, error>>

\* the walk of translate() reaches the next Query
TranslateQuery ==
    /\ pc = "translate"
    /\ i < Len(query_set)
    /\ LET t == TrQuery(tr, query_set[i + 1])
       IN  /\ tr' = t
           /\ IF t.err # NoError
              THEN /\ pc' = "raised"
                   /\ error' = t.err
                   /\ i' = i
              ELSE /\ pc' = "translate"
                   /\ error' = error
                   /\ i' = i + 1
    /\ UNCHANGED <<cl, invocation, policy, request, queries, query_set, pre, result>>

\* the clauses are assembled and compile returns Result(True, clauses)
ReturnDefined ==
    /\ pc = "translate"
    /\ i = Len(query_set)
    /\ result' = Result(TRUE, Clauses(tr))
    /\ pc' = "done"
    /\ UNCHANGED <<cl, invocation, policy, request, queries, query_set, pre, tr, i, error>>

Next ==
    \/ EvaluatorFails
    \/ EvaluatorReturns
    \/ ReturnNeverDefined
    \/ ReturnAlwaysDefined
    \/ BuildQuerySet
    \/ PreprocessQuery
    \/ ConstructTranslator
    \/ TranslateQuery
    \/ ReturnDefined

Spec == Init /\ [][Next]_vars

\* the pipeline under the policy of the one-table tests
InitOneTable == Init /\ policy = "one_table"

SpecOneTable == InitOneTable /\ [][Next]_vars

\* the pipeline under the policies that bind iterators and aliases
InitBindings == Init /\ policy \in {"iterators", "alias"}

SpecBindings == InitBindings /\ [][Next]_vars

\* the pipeline under the policies of the relational and join tests
InitJoins == Init /\ policy \in {"joins", "relations"}

SpecJoins == InitJoins /\ [][Next]_vars

\* the pipeline under the policies that use every relational operator
InitRelational == Init /\ policy \in {"iterators", "joins", "relations"}

SpecRelational == InitRelational /\ [][Next]_vars

\* the pipeline under the policy that calls built-in functions
InitBuiltins == Init /\ policy = "builtins"

SpecBuiltins == InitBuiltins /\ [][Next]_vars

\* the pipeline under the policy that compares a constant with a column
InitConstantFirst == Init /\ policy = "constant_first"

SpecConstantFirst == InitConstantFirst /\ [][Next]_vars

\* the pipeline under the policy over tables other than the from-table
InitTables == Init /\ policy = "tables"

SpecTables == InitTables /\ [][Next]_vars

(* ------------------------------------------------------------------ *)
(* The steps of wrapped(), the function compile_command_line returns. *)
(* ------------------------------------------------------------------ *)

\* the keys of data_files
DataFileNames(n) == [k \in 1..n |-> "file" \o ToString(k)]

\* the calls of wrapped(query, input, unknowns) of the model
ClCalls ==
    { [NoCl EXCEPT !.data_files = DataFileNames(n), !.input = inp] :
        n \in 0..MaxDataFiles, inp \in {"None", "input"} }

RECURSIVE JoinPath(_)
\* the path string of a sequence of path components
JoinPath(path) ==
    IF Len(path) = 1 THEN path[1]
    ELSE JoinPath(SubSeq(path, 1, Len(path) - 1)) \o "/" \o path[Len(path)]

\* os.path.join(dirpath, name)
PathJoin(dirpath, name) == Append(dirpath, name)

IsUnder(path, dirpath) ==
    Len(path) >= Len(dirpath) /\ SubSeq(path, 1, Len(dirpath)) = dirpath

\* what shutil.rmtree(dirpath) leaves of the files fs
Rmtree(fs, dirpath) == { path \in fs : ~IsUnder(path, dirpath) }

RECURSIVE UnknownsArgs(_, _)
\* for u in unknowns: args.extend(['--unknowns', u])
UnknownsArgs(unknowns, k) ==
    IF k > Len(unknowns) THEN <<>>
    ELSE <<"--unknowns", unknowns[k]>> \o UnknownsArgs(unknowns, k + 1)

\* wrapped() is called and builds the head of the command line
ClCall ==
    /\ cl.pc = "idle"
    /\ cl' = [cl EXCEPT !.pc = "mkdtemp",
                        !.args = <<"opa", "eval", "--partial", "--format", "json">>
                                 \o UnknownsArgs(Request.unknowns, 1)]
    /\ UNCHANGED <<invocation, policy, pc, request, queries, query_set, pre, tr,
                   i, result, error>>

\* dirpath = tempfile.mkdtemp(), outside the try statement
ClMkdtemp ==
    /\ cl.pc = "mkdtemp"
    /\ \/ cl' = [cl EXCEPT !.pc = "makedirs", !.dirpath = <<"tmp">>,
                           !.fs = {<<"tmp">>}]
       \/ cl' = [cl EXCEPT !.pc = "raised", !.err = Raise("OSError", "mkdtemp", "")]
    /\ UNCHANGED <<invocation, policy, pc, request, queries, query_set, pre, tr,
                   i, result, error>>

\* os.makedirs(data_dirpath)
ClMakedirs ==
    /\ cl.pc = "makedirs"
    /\ \/ cl' = [cl EXCEPT !.pc = "stage",
                           !.fs = @ \cup {PathJoin(cl.dirpath, "data")}]
       \/ cl' = [cl EXCEPT !.pc = "finally",
                           !.pending = Raise("OSError", "makedirs", "")]
    /\ UNCHANGED <<invocation, policy, pc, request, queries, query_set, pre, tr,
                   i, result, error>>

\* with open(os.path.join(data_dirpath, filename), 'w') as f: f.write(content)
\* for the next data file: open() fails, or write() fails on the file
\* open() has created, or both succeed
ClWriteDataFile ==
    /\ cl.pc = "stage"
    /\ cl.written < Len(cl.data_files)
    /\ LET path == PathJoin(PathJoin(cl.dirpath, "data"),
                            cl.data_files[cl.written + 1])
       IN  \/ cl' = [cl EXCEPT !.fs = @ \cup {path}, !.written = @ + 1]
           \/ cl' = [cl EXCEPT !.pc = "finally",
                               !.pending = Raise("OSError", "open", JoinPath(path))]
           \/ cl' = [cl EXCEPT !.pc = "finally", !.fs = @ \cup {path},
                               !.pending = Raise("TypeError", "write", JoinPath(path))]
    /\ UNCHANGED <<invocation, policy, pc, request, queries, query_set, pre, tr,
                   i, result, error>>

\* args.extend(['--data', data_dirpath]); the input file, when there is an
\* input; args.append(query)
ClStageInput ==
    /\ cl.pc = "stage"
    /\ cl.written = Len(cl.data_files)
    /\ LET data_args == cl.args \o <<"--data", JoinPath(PathJoin(cl.dirpath, "data"))>>
           input_path == PathJoin(cl.dirpath, "input.json")
       IN  IF cl.input = "None"
           THEN cl' = [cl EXCEPT !.pc = "exec", !.args = Append(data_args, "query")]
           ELSE \/ cl' = [cl EXCEPT !.pc = "exec", !.fs = @ \cup {input_path},
                                    !.args = data_args
                                        \o <<"--input", JoinPath(input_path), "query">>]
                \/ cl' = [cl EXCEPT !.pc = "finally", !.args = data_args,
                                    !.pending = Raise("OSError", "open",
                                                      JoinPath(input_path))]
                \/ cl' = [cl EXCEPT !.pc = "finally", !.args = data_args,
                                    !.fs = @ \cup {input_path},
                                    !.pending = Raise("TypeError", "json.dump", "")]
    /\ UNCHANGED <<invocation, policy, pc, request, queries, query_set, pre, tr,
                   i, result, error>>

\* output = subprocess.check_output(args, stderr=subprocess.STDOUT): the
\* binary writes its result, exits with a non-zero code (CalledProcessError,
\* turned into Exception by the except clause), or cannot be launched
ClCheckOutput ==
    /\ cl.pc = "exec"
    /\ \/ \E out \in {"json", "not json"} :
            cl' = [cl EXCEPT !.pc = "finally", !.output = out]
       \/ cl' = [cl EXCEPT !.pc = "finally",
                           !.pending = Raise("Exception", "exit code", cl.args[1])]
       \/ cl' = [cl EXCEPT !.pc = "finally",
                           !.pending = Raise("FileNotFoundError", "", cl.args[1])]
    /\ UNCHANGED <<invocation, policy, pc, request, queries, query_set, pre, tr,
                   i, result, error>>

\* a clean-up placed in the except clause and after the try statement
\* instead of a finally clause
ClCleanUpExceptOnly ==
    /\ cl.pc = "finally"
    /\ IF cl.pending = NoError
       THEN cl' = [cl EXCEPT !.pc = "loads", !.fs = Rmtree(@, cl.dirpath)]
       ELSE IF cl.pending.class = "Exception"
       THEN cl' = [cl EXCEPT !.pc = "raised", !.fs = Rmtree(@, cl.dirpath),
                            !.err = cl.pending]
       ELSE cl' = [cl EXCEPT !.pc = "raised", !.err = cl.pending]
    /\ UNCHANGED <<invocation, policy, pc, request, queries, query_set, pre, tr,
                   i, result, error>>

\* finally: shutil.rmtree(dirpath), then the pending exception goes on
ClFinally ==
    /\ cl.pc = "finally"
    /\ IF cl.pending = NoError
       THEN cl' = [cl EXCEPT !.pc = "loads", !.fs = Rmtree(@, cl.dirpath)]
       ELSE cl' = [cl EXCEPT !.pc = "raised", !.fs = Rmtree(@, cl.dirpath),
                            !.err = cl.pending]
    /\ UNCHANGED <<invocation, policy, pc, request, queries, query_set, pre, tr,
                   i, result, error>>

\* return json.loads(output).get('partial', {}).get('queries', [])
ClReturn ==
    /\ cl.pc = "loads"
    /\ IF cl.output = "json"
       THEN cl' = [cl EXCEPT !.pc = "returned"]
       ELSE cl' = [cl EXCEPT !.pc = "raised",
                            !.err = Raise("JSONDecodeError", "", cl.output)]
    /\ UNCHANGED <<invocation, policy, pc, request, queries, query_set, pre, tr,
                   i, result, error>>

\* compile is about to call the evaluator binding compile_command_line
\* returned, with some data files and with or without an input
InitCommandLine ==
    /\ invocation \in Invocations
    /\ policy \in Policies
    /\ pc = "start"
    /\ request = NoRequest
    /\ queries = <<>>
    /\ query_set = <<>>
    /\ pre = NoPre
    /\ tr = NoTr
    /\ i = 0
    /\ result = NoResult
    /\ error = NoError
    /\ cl \in ClCalls

NextCommandLine ==
    \/ ClCall
    \/ ClMkdtemp
    \/ ClMakedirs
    \/ ClWriteDataFile
    \/ ClStageInput
    \/ ClCheckOutput
    \/ ClFinally
    \/ ClReturn

SpecCommandLine == InitCommandLine /\ [][NextCommandLine]_vars

(* ------------------------------------------------------------------ *)
(* Properties.                                                        *)
(* ------------------------------------------------------------------ *)

\* the evaluator call has returned (it did not raise)
EvaluatorReturned ==
    pc \notin {"start", "classify"} /\ ~(pc = "raised" /\ error.msg = "evaluator")

\* C1: whenever the evaluator returns an empty sequence of Queries, compile
\* and compile_sa return Result(False, None), whatever the call's arguments,
\* and neither a queryPreprocessor nor a translator was ever constructed.
C1_EmptyIsNeverDefined ==
    (EvaluatorReturned /\ Len(queries) = 0) =>
        /\ pc = "done"
        /\ result = Result(FALSE, NoSql)
        /\ ~pre.live
        /\ ~tr.live

C1_Witness ==
    /\ pc = "done"
    /\ request.sent
    /\ Len(queries) = 0
    /\ invocation.entry = "compile_sa"
    /\ ~result.defined

\* C2: whenever the evaluator's non-empty result holds a Query with zero
\* Exprs, at any position, compile and compile_sa return Result(True, None),
\* whatever the other Queries are.
C2_EmptyQueryIsAlwaysDefined ==
    (EvaluatorReturned /\ \E k \in DOMAIN queries : queries[k] = <<>>) =>
        /\ pc = "done"
        /\ result = Result(TRUE, NoSql)
        /\ ~pre.live
        /\ ~tr.live

\* an empty Query that is not the first, next to a Query the Preprocessor
\* would reject (data.q.foo.bar = 10)
C2_Witness ==
    /\ pc = "done"
    /\ result = Result(TRUE, NoSql)
    /\ Len(queries) = 2
    /\ Len(queries[2]) = 0
    /\ Len(queries[1]) > 0
    /\ \E e \in 1..Len(queries[1]) :
          /\ ~queries[1][e].bare
          /\ queries[1][e].terms[2].type = "ref"
          /\ Len(queries[1][e].terms[2].value) = 4
          /\ queries[1][e].terms[2].value[3].type = "string"

\* C3: a failure of the evaluator call, of the Preprocessor or of the
\* Translator ends the call with that error raised and no Result returned;
\* a returned Result is never the outcome of a failure.
C3_FailuresPropagate ==
    /\ (pre.err # NoError \/ tr.err # NoError \/ error # NoError) =>
          (pc = "raised" /\ result = NoResult /\ error # NoError)
    /\ pre.err # NoError => error = pre.err
    /\ tr.err # NoError => error = tr.err
    /\ result.returned => (pc = "done" /\ error = NoError)

\* the Preprocessor passed and the Translator raised a TranslationError
C3_Witness ==
    /\ pc = "raised"
    /\ pre.live /\ pre.err = NoError
    /\ tr.err.class = "TranslationError"
    /\ result = NoResult

(* ------------------------------------------------------------------ *)
(* What a Query holds, read off the evaluator's result as it was      *)
(* before the Preprocessor rewrote anything.                          *)
(* ------------------------------------------------------------------ *)

\* the QuerySet as built from the evaluator's result
Original == QuerySetFromData(queries)

RECURSIVE Flatten(_)
Flatten(ss) == IF ss = <<>> THEN <<>> ELSE Head(ss) \o Flatten(Tail(ss))

RECURSIVE RefsOfTerm(_)
\* the Refs of a Term, outermost only, in reading order; the operator of a
\* call is not a Ref of the Term
RefsOfTerm(t) ==
    CASE t.type = "ref" -> <<t>>
      [] t.type = "call" ->
            Flatten([k \in 1..(Len(t.terms) - 1) |-> RefsOfTerm(t.terms[k + 1])])
      [] OTHER -> <<>>

RefsOfExpr(e) ==
    IF e.is_call
    THEN Flatten([k \in 1..(Len(e.terms) - 1) |-> RefsOfTerm(e.terms[k + 1])])
    ELSE RefsOfTerm(e.terms[1])

RefsOfQuery(query) == Flatten([k \in 1..Len(query) |-> RefsOfExpr(query[k])])

\* the Ref has a row segment and it is a Var: data.<table>[<iterator>]...
HasRowVar(ref) == Len(ref.terms) >= 3 /\ ref.terms[3].type = "var"

RECURSIVE IteratorsBefore(_, _)
\* the iterator variables the Refs before the k-th have introduced: a Ref
\* introduces its row Var unless it starts with a variable introduced before
IteratorsBefore(refs, k) ==
    IF k <= 1 THEN {}
    ELSE LET b == IteratorsBefore(refs, k - 1)
             r == refs[k - 1]
         IN  IF r.terms[1].value \notin b /\ HasRowVar(r)
             THEN b \cup {r.terms[3].value}
             ELSE b

\* the k-th Ref is a row binder: it does not start with an iterator variable
\* introduced before it, and its row segment is a Var
IsRowBinder(refs, k) ==
    refs[k].terms[1].value \notin IteratorsBefore(refs, k) /\ HasRowVar(refs[k])

\* the k-th Ref does not start with an iterator variable introduced before
\* it, and its third segment is missing or is not a Var
IsOffender(refs, k) ==
    refs[k].terms[1].value \notin IteratorsBefore(refs, k) /\ ~HasRowVar(refs[k])

\* two row binders of the Query bind one table to two distinct iterators
SelfJoins(query) ==
    LET refs == RefsOfQuery(query)
    IN  \E a, b \in 1..Len(refs) :
            /\ IsRowBinder(refs, a) /\ IsRowBinder(refs, b)
            /\ refs[a].terms[2].value = refs[b].terms[2].value
            /\ refs[a].terms[3].value # refs[b].terms[3].value

HasOffender(query) ==
    LET refs == RefsOfQuery(query)
    IN  \E k \in 1..Len(refs) : IsOffender(refs, k)

SelfJoinError ==
    TranslationError("invalid reference: self-joins not supported", "")

\* the Preprocessor has raised, on the Query after the i-th
PreRaised == pc = "raised" /\ pre.live /\ ~tr.live /\ pre.err # NoError

\* the Preprocessor has gone through the first k Queries without raising
PrePassed(k) ==
    pre.live /\ (tr.live \/ (pc = "preprocess" /\ k <= i) \/ (PreRaised /\ k <= i))

\* C4: the Preprocessor raises 'self-joins not supported' exactly when row
\* binders of one Query bind a table to two distinct iterators: it raises it
\* only on such a Query, it never passes such a Query, and on a Query all of
\* whose Refs are well formed it raises nothing else. Binding the table
\* again with the same iterator, or with another iterator in another Query,
\* raises nothing.
C4_SelfJoinExactly ==
    /\ (PreRaised /\ pre.err = SelfJoinError) => SelfJoins(Original[i + 1])
    /\ \A k \in 1..Len(Original) : PrePassed(k) => ~SelfJoins(Original[k])
    /\ (PreRaised /\ ~HasOffender(Original[i + 1])) => pre.err = SelfJoinError

\* the first Query bound q to i; the second bound q to j, which raised
\* nothing, and then to i again, which raised
C4_Witness ==
    /\ PreRaised
    /\ pre.err = SelfJoinError
    /\ i = 1
    /\ pre.table_names[1] = Put(EmptyMap, "q", "i")
    /\ pre.table_names[2] = Put(EmptyMap, "q", "j")

(* ------------------------------------------------------------------ *)
(* What the Translator is expected to make of a preprocessed Query.   *)
(* ------------------------------------------------------------------ *)

\* the Translator has translated the first Translated Queries
Translated == IF tr.live /\ pc \in {"translate", "done", "raised"} THEN i ELSE 0

RECURSIVE TablesOfTerm(_)
\* the tables of the canonical (three-segment) Refs of a Term
TablesOfTerm(t) ==
    CASE t.type = "ref" -> IF Len(t.terms) = 3 THEN {t.terms[2].value} ELSE {}
      [] t.type = "call" ->
            UNION { TablesOfTerm(t.terms[k]) : k \in 2..Len(t.terms) }
      [] OTHER -> {}

\* the tables a preprocessed Query touches: those of the operands of its
\* Call-Exprs
Touched(query) ==
    UNION { UNION { TablesOfTerm(query[e].terms[k]) : k \in 2..Len(query[e].terms) } :
            e \in { e \in 1..Len(query) : query[e].is_call } }

IsMultiTable(query) == Cardinality(Touched(query)) > 1

\* the Call-Exprs of a Query, in Expr order
CallExprs(query) == SelectSeq(query, LAMBDA e : e.is_call)

\* how many of the first k Queries are multi-table / are not
MultiUpTo(k) == Cardinality({ j \in 1..k : IsMultiTable(query_set[j]) })
SingleUpTo(k) == Cardinality({ j \in 1..k : ~IsMultiTable(query_set[j]) })

\* the Conjunction the Translator holds for the k-th Query: the entry of the
\* join list or of the conjunction list at that Query's rank
ConjunctionOf(k) ==
    IF IsMultiTable(query_set[k]) THEN tr.joins[MultiUpTo(k)][2]
    ELSE tr.conjunctions[SingleUpTo(k)]

\* the SQL operator the claim gives for a Rego operator
MappedOperator(op) ==
    CASE op \in {"eq", "equal"} -> "="
      [] op = "neq" -> "!="
      [] op = "lt" -> "<"
      [] op = "gt" -> ">"
      [] op = "lte" -> "<="
      [] op = "gte" -> ">="
      [] OTHER -> "?"

\* the operand of a Relation stands for the operand Term of the Expr
StandsFor(operand, t) ==
    CASE t.type = "scalar" -> operand = Constant(t.value)
      [] t.type = "ref" -> operand = Column(t.terms[3].value, t.terms[2].value)
      [] t.type = "call" -> operand.kind = "Call"
      [] OTHER -> FALSE

\* C5: for every Query the portable Translator has translated it holds one
\* Conjunction with exactly one Relation per Call-Expr of that Query, in Expr
\* order, whose operator is the SQL operator of the Expr's Rego operator and
\* whose operands stand for the Expr's operands; bare Exprs and the Exprs of
\* other Queries add nothing to it.
C5_OneRelationPerCallExpr ==
    (tr.live /\ ~tr.sa) =>
        /\ Len(tr.conjunctions) + Len(tr.joins) = Translated
        /\ \A k \in 1..Translated :
              LET calls == CallExprs(query_set[k])
                  conj == ConjunctionOf(k)
              IN  /\ conj.kind = "Conjunction"
                  /\ Len(conj.conditions) = Len(calls)
                  /\ \A e \in 1..Len(calls) :
                        /\ conj.conditions[e].kind = "Relation"
                        /\ conj.conditions[e].op = MappedOperator(Op(calls[e]))
                        /\ StandsFor(conj.conditions[e].lhs, calls[e].terms[2])
                        /\ StandsFor(conj.conditions[e].rhs, calls[e].terms[3])

\* two Queries translated by queryTranslator, the first with a bare Expr and
\* a Call-Expr, the second with two Call-Exprs
C5_Witness ==
    /\ tr.live /\ ~tr.sa
    /\ pc = "translate"
    /\ Translated = 2
    /\ Len(query_set[1]) = 2
    /\ ~query_set[1][1].is_call
    /\ Len(tr.conjunctions) >= 1
    /\ Len(tr.conjunctions[1].conditions) = 1
    /\ Len(query_set[2]) = 1

RECURSIVE ExpectedOperand(_)
\* the Operand a canonical Ref, a Scalar or a call of abs stands for
ExpectedOperand(t) ==
    CASE t.type = "scalar" -> Constant(t.value)
      [] t.type = "ref" -> Column(t.terms[3].value, t.terms[2].value)
      [] t.type = "call" ->
            SqlCall(Op(t), [k \in 1..(Len(t.terms) - 1) |-> ExpectedOperand(t.terms[k + 1])])

\* the Conjunction of the Relations of the Call-Exprs of a Query
ExpectedConjunction(query) ==
    LET calls == CallExprs(query)
    IN  Conjunction([e \in 1..Len(calls) |->
            Relation(MappedOperator(Op(calls[e])),
                     ExpectedOperand(calls[e].terms[2]),
                     ExpectedOperand(calls[e].terms[3]))])

\* the ranks, in Query order, of the Queries that are / are not multi-table
Ranks == [k \in 1..Len(query_set) |-> k]
MultiQueries == SelectSeq(Ranks, LAMBDA k : IsMultiTable(query_set[k]))
SingleQueries == SelectSeq(Ranks, LAMBDA k : ~IsMultiTable(query_set[k]))

\* compile has returned a Defined result carrying clauses
ReturnedClauses == pc = "done" /\ result.defined /\ result.sql # NoSql

\* C6: the Union translate returns holds, in this order, one Where if and
\* only if some Query is not multi-table, whose Disjunction lists the
\* Conjunctions of those Queries in Query order, and then one InnerJoin per
\* multi-table Query, in Query order.
C6_WhereThenJoins ==
    (ReturnedClauses /\ ~tr.sa) =>
        LET clauses == result.sql.clauses
            w == IF SingleQueries = <<>> THEN 0 ELSE 1
        IN  /\ result.sql.kind = "Union"
            /\ Len(clauses) = w + Len(MultiQueries)
            /\ w = 1 =>
                  clauses[1] = Where(Disjunction(
                      [j \in 1..Len(SingleQueries) |->
                          ExpectedConjunction(query_set[SingleQueries[j]])]))
            /\ \A j \in 1..Len(MultiQueries) :
                  clauses[w + j] =
                      InnerJoin(Touched(query_set[MultiQueries[j]]) \ {invocation.from_table},
                                ExpectedConjunction(query_set[MultiQueries[j]]))

\* a multi-table Query came first and a single-table Query second: the
\* Where is the first member all the same
C6_Witness ==
    /\ ReturnedClauses /\ ~tr.sa
    /\ Len(query_set) = 2
    /\ IsMultiTable(query_set[1])
    /\ ~IsMultiTable(query_set[2])
    /\ result.sql.clauses[1].kind = "Where"
    /\ result.sql.clauses[2].kind = "InnerJoin"

RECURSIVE Unchain(_)
\* the table a chain of joins starts from and, in order, what it joins
Unchain(j) ==
    IF j.kind = "Table" THEN [from |-> j.name, steps |-> <<>>]
    ELSE LET u == Unchain(j.left)
         IN  [from |-> u.from,
              steps |-> Append(u.steps, [table |-> j.right.name, on |-> j.on])]

\* the operand of a SQLAlchemy relation stands for the operand Term
SaStandsFor(operand, t) ==
    CASE t.type = "scalar" -> operand = Literal(t.value)
      [] t.type = "ref" -> operand = Column(t.terms[3].value, t.terms[2].value)
      [] t.type = "call" -> operand.kind = "Call"
      [] OTHER -> FALSE

\* the condition is the AND of one relation per Call-Expr of the Query, in
\* Expr order, over the operands of the Expr
IsConjunctionOf(on, query) ==
    LET calls == CallExprs(query)
    IN  /\ on.kind = "Conjunction"
        /\ Len(on.conditions) = Len(calls)
        /\ \A e \in 1..Len(calls) :
              LET r == on.conditions[e]
              IN  /\ r.op = MappedOperator(Op(calls[e]))
                  /\ \/ SaStandsFor(r.lhs, calls[e].terms[2])
                        /\ SaStandsFor(r.rhs, calls[e].terms[3])
                     \/ SaStandsFor(r.lhs, calls[e].terms[3])
                        /\ SaStandsFor(r.rhs, calls[e].terms[2])

\* C7: for every multi-table Query that touches the from-table, the
\* schema-bound Translator emits one join, chained from the from-table,
\* whose joined tables are the touched tables without the from-table, in
\* ascending order of table name, each joined ON the Conjunction of all the
\* Relations of the Query.
C7_SortedJoinChain ==
    (ReturnedClauses /\ tr.sa) =>
        LET clauses == result.sql.clauses
            w == IF SingleQueries = <<>> THEN 0 ELSE 1
        IN  /\ Len(clauses) = w + Len(MultiQueries)
            /\ \A j \in 1..Len(MultiQueries) :
                  LET query == query_set[MultiQueries[j]]
                      chain == Unchain(clauses[w + j])
                      n == Len(chain.steps)
                  IN  /\ chain.from = invocation.from_table
                      /\ { chain.steps[k].table : k \in 1..n } =
                            Touched(query) \ {invocation.from_table}
                      /\ n = Cardinality(Touched(query)) - 1
                      /\ \A k \in 1..(n - 1) :
                            TableRank[chain.steps[k].table] <
                                TableRank[chain.steps[k + 1].table]
                      /\ \A k \in 1..n :
                            /\ chain.steps[k].on = tr.joins[j][2]
                            /\ IsConjunctionOf(chain.steps[k].on, query)

\* the Query touched s, then q, then r; the chain joins r, then s
C7_Witness ==
    /\ ReturnedClauses /\ tr.sa
    /\ Len(query_set) = 1
    /\ Len(query_set[1]) = 2
    /\ query_set[1][1].is_call
    /\ query_set[1][1].terms[2].type = "ref"
    /\ query_set[1][1].terms[2].terms[2].value = "s"
    /\ Len(result.sql.clauses) = 1
    /\ result.sql.clauses[1].kind = "Join"
    /\ Len(Unchain(result.sql.clauses[1]).steps) = 2
    /\ Unchain(result.sql.clauses[1]).steps[1].table = "r"
    /\ Unchain(result.sql.clauses[1]).steps[2].table = "s"

(* ------------------------------------------------------------------ *)
(* The Preprocessor's rewriting.                                      *)
(* ------------------------------------------------------------------ *)

\* the Preprocessor has gone through every Query without raising
PrePassedAll ==
    /\ pre.live /\ pre.err = NoError
    /\ tr.live \/ (pc = "preprocess" /\ i = Len(query_set))

\* data.q = x; x[i] = y; y.a = 1
AliasChain ==
    << [is_call |-> TRUE,
        terms |-> <<Ref(<<Var("eq")>>), Ref(<<Var("data"), Scalar("q")>>), Var("x")>>],
       [is_call |-> TRUE,
        terms |-> <<Ref(<<Var("eq")>>), Ref(<<Var("x"), Var("i")>>), Var("y")>>],
       [is_call |-> TRUE,
        terms |-> <<Ref(<<Var("eq")>>), Ref(<<Var("y"), Scalar("a")>>), Scalar("1")>>] >>

\* data.q[i].a = 1
Inlined ==
    << [is_call |-> TRUE,
        terms |-> <<Ref(<<Var("eq")>>),
                    Ref(<<Var("data"), Scalar("q"), Var("i"), Scalar("a")>>),
                    Scalar("1")>>] >>

\* the filter q.a = 1 as queryTranslator returns it
FilterQA1 ==
    Union(<<Where(Disjunction(<<Conjunction(
        <<Relation("=", Column("a", "q"), Constant("1"))>>)>>))>>)

\* C8: compile on a result whose one Query is the alias chain data.q = x;
\* x[i] = y; y.a = 1 succeeds and returns the filter it returns for
\* data.q[i].a = 1, that is q.a = 1.
C8_AliasChainResolves ==
    (invocation.entry = "compile" /\ pc \in {"done", "raised"} /\ EvaluatorReturned
        /\ (Original = <<AliasChain>> \/ Original = <<Inlined>>))
    => (pc = "done" /\ result = Result(TRUE, FilterQA1))

\* the row-identifier error of the Preprocessor
IsInvalidRowIdentifier(err) ==
    /\ err.class = "TranslationError"
    /\ err.msg = "invalid reference: row identifier type not supported"

\* C9: a Query holding a Ref that does not start with an iterator bound
\* before it and whose third segment is not a Var (or is missing) never
\* passes the Preprocessor, and unless a self-join was met first the
\* Preprocessor raises the row-identifier TranslationError on it.
C9_NonVarRowIsInvalidRowIdentifier ==
    /\ \A k \in 1..Len(Original) : PrePassed(k) => ~HasOffender(Original[k])
    /\ (PreRaised /\ HasOffender(Original[i + 1]) /\ pre.err # SelfJoinError)
          => IsInvalidRowIdentifier(pre.err)

\* the iterators the Preprocessor bound in the k-th Query
IteratorsOf(k) == { pre.table_names[k][t] : t \in DOMAIN pre.table_names[k] }

\* the Refs among the operands of the Call-Exprs of a Query, nested calls
\* included
OperandRefs(query) == RefsOfQuery(CallExprs(query))

RECURSIVE PrefixBefore(_, _, _)
\* the table prefix of the last row binder before the k-th Ref that
\* introduced the iterator v
PrefixBefore(refs, k, v) ==
    IF k <= 1 THEN <<>>
    ELSE IF IsRowBinder(refs, k - 1) /\ refs[k - 1].terms[3].value = v
    THEN SubSeq(refs[k - 1].terms, 1, 2)
    ELSE PrefixBefore(refs, k - 1, v)

\* what the Preprocessor is to make of the k-th Ref of a Query
Rewritten(refs, k) ==
    LET r == refs[k]
    IN  IF r.terms[1].value \in IteratorsBefore(refs, k)
        THEN PrefixBefore(refs, k, r.terms[1].value) \o Tail(r.terms)
        ELSE SubSeq(r.terms, 1, 2) \o SubSeq(r.terms, 4, Len(r.terms))

TranslatorConstructed ==
    tr.live /\ (tr.sa => tr.from_table \in DOMAIN Schema)

\* the relational operators the Translator is said to support
SupportedRelational == {"eq", "equal", "neq", "lt", "gt", "lte", "gte"}

\* a canonical Ref to a column of the schema
IsKnownColumn(t) ==
    /\ t.type = "ref"
    /\ Len(t.terms) = 3
    /\ t.terms[2].value \in DOMAIN Schema
    /\ t.terms[3].value \in Schema[t.terms[2].value]

\* an Expr either translator takes without failure: a bare Expr, or a
\* supported relation of a known column and a scalar or known column
IsPlainExpr(e) ==
    \/ ~e.is_call
    \/ /\ Len(e.terms) = 3
       /\ Op(e) \in SupportedRelational
       /\ IsKnownColumn(e.terms[2])
       /\ e.terms[3].type = "scalar" \/ IsKnownColumn(e.terms[3])

\* a Call-Expr of exactly two operands whose operator is not relational
IsUnsupportedPair(e) ==
    e.is_call /\ Len(e.terms) = 3 /\ Op(e) \notin SupportedRelational

\* the Exprs of the Query at which the Translator arrives at such a Call-Expr
UnsupportedAt(query) ==
    { k \in 1..Len(query) :
        /\ IsUnsupportedPair(query[k])
        /\ \A j \in 1..(k - 1) : IsPlainExpr(query[j]) }

\* C11: a Query in which the Translator arrives at a Call-Expr of exactly two
\* operands whose operator is outside {eq, equal, neq, lt, gt, lte, gte} is
\* never translated: the Translator fails at it with the TranslationError
\* "invalid expression: operator not supported" naming that operator, and
\* the request gets no Result, hence no clause.
C11_UnsupportedOperatorNamed ==
    TranslatorConstructed =>
        \A k \in 1..Len(query_set) : \A e \in UnsupportedAt(query_set[k]) :
            /\ Translated < k
            /\ result = NoResult
            /\ pc \in {"translate", "raised"}
            /\ (pc = "raised" /\ i = k - 1) =>
                   error = TranslationError(
                       "invalid expression: operator not supported",
                       Op(query_set[k][e]))

\* the Translator has failed in the second Query at a two-operand
\* startswith that follows a supported relation
C11_Witness ==
    /\ TranslatorConstructed
    /\ pc = "raised"
    /\ i = 1
    /\ Len(query_set) = 2
    /\ 2 \in UnsupportedAt(query_set[2])
    /\ query_set[2][1].is_call
    /\ error.arg = "startswith"
    /\ result = NoResult

(* ------------------------------------------------------------------ *)
(* The scratch directory of compile_command_line.                     *)
(* ------------------------------------------------------------------ *)

\* wrapped() has returned or raised
ClLeft == cl.pc \in {"returned", "raised"}

\* tempfile.mkdtemp() has created the scratch directory
ClCreated == cl.dirpath # <<>>

\* C12: once wrapped() has created its scratch directory, it neither returns
\* nor raises before the directory and everything under it is removed,
\* whether the evaluation succeeded, the binary exited with a non-zero code,
\* staging a data file or the input failed, or the binary could not be
\* launched.
C12_ScratchRemoved ==
    (ClLeft /\ ClCreated) => \A path \in cl.fs : ~IsUnder(path, cl.dirpath)

\* wrapped() has raised because the binary could not be launched, after it
\* had staged a data file and the input
C12_Witness ==
    /\ cl.pc = "raised"
    /\ ClCreated
    /\ cl.err.class = "FileNotFoundError"
    /\ cl.written >= 1
    /\ cl.input # "None"
    /\ cl.fs = {}

(* ------------------------------------------------------------------ *)
(* What a Relation of a column and a constant says about a row.       *)
(* ------------------------------------------------------------------ *)

\* the number a numeric scalar of the policies denotes
NumValue(v) ==
    CASE v = "1" -> 1 [] v = "10" -> 10 [] v = "20" -> 20

IsNumeral(v) == v \in {"1", "10", "20"}

\* the values the column of a row may hold
RowValues == {0, 1, 2, 10, 20}

\* the Rego built-in op holds of the numbers a and b
RegoHolds(op, a, b) ==
    CASE op \in {"eq", "equal"} -> a = b
      [] op = "neq" -> a # b
      [] op = "lt" -> a < b
      [] op = "gt" -> a > b
      [] op = "lte" -> a <= b
      [] op = "gte" -> a >= b

\* the SQL comparison lhs op rhs holds of the numbers a and b
SqlHolds(op, a, b) ==
    CASE op = "=" -> a = b
      [] op = "!=" -> a # b
      [] op = "<" -> a < b
      [] op = ">" -> a > b
      [] op = "<=" -> a <= b
      [] op = ">=" -> a >= b

\* the value of an operand Term / of a Relation operand in a row whose
\* column holds v
TermValue(t, v) == IF t.type = "ref" THEN v ELSE NumValue(t.value)
SqlValue(operand, v) == IF operand.kind = "Column" THEN v ELSE NumValue(operand.value)

\* a Call-Expr that compares a column with a numeric constant, either way
IsColumnConstant(e) ==
    /\ e.is_call /\ Len(e.terms) = 3 /\ Op(e) \in SupportedRelational
    /\ \/ IsKnownColumn(e.terms[2]) /\ e.terms[3].type = "scalar"
                                     /\ IsNumeral(e.terms[3].value)
       \/ IsKnownColumn(e.terms[3]) /\ e.terms[2].type = "scalar"
                                     /\ IsNumeral(e.terms[2].value)

\* the Queries the Translator has translated all of whose Exprs compare a
\* column with a numeric constant
ColumnConstantQueries ==
    { k \in 1..Translated : \A e \in 1..Len(query_set[k]) :
                                IsColumnConstant(query_set[k][e]) }

\* C13: for every translated Call-Expr that compares a column with a
\* constant, in either order and for every supported operator, the Relation
\* the Translator holds, whichever operand it puts first, is satisfied by
\* exactly the rows that satisfy the Expr.
C13_SameRows ==
    TranslatorConstructed =>
        \A k \in ColumnConstantQueries : \A e \in 1..Len(query_set[k]) :
            LET rel == ConjunctionOf(k).conditions[e]
                expr == query_set[k][e]
            IN  \A v \in RowValues :
                    SqlHolds(rel.op, SqlValue(rel.lhs, v), SqlValue(rel.rhs, v))
                    <=> RegoHolds(Op(expr), TermValue(expr.terms[2], v),
                                  TermValue(expr.terms[3], v))

(* ------------------------------------------------------------------ *)
(* Calls with the wrong number of operands.                           *)
(* ------------------------------------------------------------------ *)

\* a Call-Expr whose operand count is not two
IsWrongCountExpr(e) == e.is_call /\ Len(e.terms) # 3

\* a nested call of abs over columns and scalars whose operand count is not
\* one
IsWrongCountAbs(t) ==
    /\ t.type = "call"
    /\ Op(t) = "abs"
    /\ Len(t.terms) # 2
    /\ \A j \in 2..Len(t.terms) : t.terms[j].type = "scalar" \/ IsKnownColumn(t.terms[j])

\* a supported relation whose first operand is such a nested call
HasWrongCountAbs(e) ==
    /\ e.is_call /\ Len(e.terms) = 3 /\ Op(e) \in SupportedRelational
    /\ IsWrongCountAbs(e.terms[2])

\* the Exprs of the Query at which the Translator arrives at a call with the
\* wrong operand count
WrongCountAt(query) ==
    { k \in 1..Len(query) :
        /\ IsWrongCountExpr(query[k]) \/ HasWrongCountAbs(query[k])
        /\ \A j \in 1..(k - 1) : IsPlainExpr(query[j]) }

\* C14: a Query in which the Translator, portable or schema-bound, arrives at
\* a relational Call-Expr whose operand count is not two, or at a nested abs
\* whose operand count is not one, is never translated: the Translator fails
\* at it with a TranslationError, for the Call-Expr whatever its operator,
\* and the request gets no Result.
C14_WrongCountIsInvalidArity ==
    TranslatorConstructed =>
        \A k \in 1..Len(query_set) : \A e \in WrongCountAt(query_set[k]) :
            /\ Translated < k
            /\ result = NoResult
            /\ (pc = "raised" /\ i = k - 1) =>
                   /\ error.class = "TranslationError"
                   /\ IsWrongCountExpr(query_set[k][e]) =>
                          error.msg = "invalid expression: too many arguments"

(* ------------------------------------------------------------------ *)
(* The join list and the from-table.                                  *)
(* ------------------------------------------------------------------ *)

\* a Query of Exprs either translator takes, touching two or more tables
\* none of which is the from-table
IsForeignJoin(query) ==
    /\ \A e \in 1..Len(query) : IsPlainExpr(query[e])
    /\ IsMultiTable(query)
    /\ invocation.from_table \notin Touched(query)

\* C15: every join entry the Translator holds has a table set that is not
\* empty and does not contain the from-table; and a Query that touches two
\* or more tables none of which is the from-table (any multi-table Query
\* when from_table is None) is never translated: the Translator fails at it
\* with the KeyError of removing the from-table from the touched set, and
\* the request gets no Result, hence no clause.
C15_JoinsWithoutFromTable ==
    TranslatorConstructed =>
        /\ \A j \in 1..Len(tr.joins) :
              /\ tr.joins[j][1] # {}
              /\ tr.from_table \notin tr.joins[j][1]
        /\ \A k \in 1..Len(query_set) :
              IsForeignJoin(query_set[k]) =>
                  /\ Translated < k
                  /\ result = NoResult
                  /\ pc \in {"translate", "raised"}
                  /\ (pc = "raised" /\ i = k - 1) =>
                         error = Raise("KeyError", "", invocation.from_table)

\* with from-table q the Translator holds the join of a Query over q and r
\* and has failed at the next Query, which touches r and s only
C15_Witness ==
    /\ TranslatorConstructed
    /\ invocation.from_table = "q"
    /\ Len(query_set) = 2
    /\ Len(tr.joins) = 1
    /\ tr.joins[1][1] = {"r"}
    /\ Touched(query_set[2]) = {"r", "s"}
    /\ pc = "raised"
    /\ i = 1
    /\ error.class = "KeyError"
    /\ result = NoResult

(* ------------------------------------------------------------------ *)
(* One entry per Query.                                               *)
(* ------------------------------------------------------------------ *)

\* how many Conjunctions the Where of the returned clauses holds
WhereConjunctions(clauses) ==
    IF clauses = <<>> THEN 0
    ELSE IF clauses[1].kind = "Where" THEN Len(clauses[1].condition.conditions)
    ELSE IF clauses[1].kind = "Disjunction" THEN Len(clauses[1].conditions)
    ELSE 0

\* how many joins the returned clauses hold
JoinClauses(clauses) ==
    Cardinality({ k \in 1..Len(clauses) : clauses[k].kind \in {"InnerJoin", "Join"} })

\* C16: while the translation has not failed, every Query translated so far
\* has contributed exactly one entry: a Conjunction in the conjunction list
\* if it touched at most one table (an empty Conjunction if it holds only
\* bare Exprs), a join otherwise; between Queries the table and relation
\* accumulators are empty; and the clauses of a Defined result are not
\* empty, their Where-Conjunctions and joins numbering as many as the
\* Queries.
C16_OneEntryPerQuery ==
    (TranslatorConstructed /\ pc \in {"translate", "done"}) =>
        /\ Len(tr.conjunctions) = SingleUpTo(Translated)
        /\ Len(tr.joins) = MultiUpTo(Translated)
        /\ Len(tr.conjunctions) + Len(tr.joins) = Translated
        /\ tr.tables = {}
        /\ tr.relations = <<>>
        /\ \A k \in 1..Translated :
              CallExprs(query_set[k]) = <<>> =>
                  /\ ~IsMultiTable(query_set[k])
                  /\ tr.conjunctions[SingleUpTo(k)] = Conjunction(<<>>)
        /\ pc = "done" =>
              /\ ReturnedClauses
              /\ result.sql.clauses # <<>>
              /\ WhereConjunctions(result.sql.clauses)
                    + JoinClauses(result.sql.clauses) = Len(query_set)
              /\ WhereConjunctions(result.sql.clauses) = Len(SingleQueries)
              /\ JoinClauses(result.sql.clauses) = Len(MultiQueries)

\* a Defined result for a Query of one bare Expr and a multi-table Query:
\* a Where of one empty Conjunction, and one join
C16_Witness ==
    /\ TranslatorConstructed
    /\ ReturnedClauses
    /\ Len(query_set) = 2
    /\ CallExprs(query_set[1]) = <<>>
    /\ IsMultiTable(query_set[2])
    /\ tr.conjunctions = <<Conjunction(<<>>)>>
    /\ Len(tr.joins) = 1
    /\ Len(result.sql.clauses) = 2

====
